---- MODULE Spec2Model ----
(***************************************************************************)
(* Model of src/src/data_cleaning.py: the cleaning pipeline                *)
(*   load_data -> clean_column_names -> handle_missing_values              *)
(*             -> remove_invalid_rows -> to_csv                            *)
(* run once on a raw file and once more on its own output.                 *)
(*                                                                         *)
(* Text is a sequence of one-character strings, so that strip, lower,      *)
(* replace, the blank test, the numeric parse and the ".csv" suffix test   *)
(* are computed character by character.  A cell of a table is null (NaN),  *)
(* a number or a string.  Numbers are integers: the float64 rendering      *)
(* ("5.0") that pandas gives a numeric column holding NaN is not           *)
(* modelled, a number is written and read back as its decimal digits.      *)
(* The pandas behaviour modelled is that of pandas 1.x/2.x, where          *)
(* astype(str) turns NaN into the string "nan".                            *)
(* A file is the grid of its fields' texts, quoting resolved: a header and  *)
(* the lines under it.  Input files have at least one column and pairwise  *)
(* distinct normalised column names.                                       *)
(***************************************************************************)
EXTENDS Integers, Sequences, FiniteSets

VARIABLES pc, filepath, fs, df, prevDf, err, log, run, first

vars == <<pc, filepath, fs, df, prevDf, err, log, run, first>>

\* ------------------------------------------------------------------ bounds
MaxRows == 2

MaxCells == 6

\* ------------------------------------------------------------------- text
WS == {" ", "\t", "\n"}

Digits == <<"0", "1", "2", "3", "4", "5", "6", "7", "8", "9">>

UpperSeq == <<"A", "B", "C", "D", "E", "F", "G", "H", "I", "J", "K", "L", "M",
              "N", "O", "P", "Q", "R", "S", "T", "U", "V", "W", "X", "Y", "Z">>

LowerSeq == <<"a", "b", "c", "d", "e", "f", "g", "h", "i", "j", "k", "l", "m",
              "n", "o", "p", "q", "r", "s", "t", "u", "v", "w", "x", "y", "z">>

IsUpper(c) == \E i \in 1..Len(UpperSeq) : UpperSeq[i] = c

LowerChar(c) ==
    IF IsUpper(c)
    THEN LowerSeq[CHOOSE i \in 1..Len(UpperSeq) : UpperSeq[i] = c]
    ELSE c

\* str.lower()
Lower(s) == [i \in 1..Len(s) |-> LowerChar(s[i])]

RECURSIVE LStrip(_)
LStrip(s) ==
    IF s = <<>> THEN s
    ELSE IF Head(s) \in WS THEN LStrip(Tail(s)) ELSE s

RECURSIVE RStrip(_)
RStrip(s) ==
    IF s = <<>> THEN s
    ELSE IF s[Len(s)] \in WS THEN RStrip(SubSeq(s, 1, Len(s) - 1)) ELSE s

\* str.strip(): leading and trailing whitespace removed
Strip(s) == RStrip(LStrip(s))

\* str.replace(a, b) for single characters
Replace(s, a, b) == [i \in 1..Len(s) |-> IF s[i] = a THEN b ELSE s[i]]

\* the regular expression ^\s*$
IsBlank(s) == \A i \in 1..Len(s) : s[i] \in WS

EndsWith(s, suffix) ==
    /\ Len(s) >= Len(suffix)
    /\ SubSeq(s, Len(s) - Len(suffix) + 1, Len(s)) = suffix

IsDigit(c) == \E i \in 1..Len(Digits) : Digits[i] = c

DigitVal(c) == (CHOOSE i \in 1..Len(Digits) : Digits[i] = c) - 1

\* the digits of a numeric text, sign removed
NumBody(s) ==
    LET t == Strip(s)
    IN  IF t # <<>> /\ Head(t) = "-" THEN Tail(t) ELSE t

\* a text the numeric parsers accept: optional padding, optional sign, digits
IsNumText(s) ==
    /\ NumBody(s) # <<>>
    /\ \A i \in 1..Len(NumBody(s)) : IsDigit(NumBody(s)[i])

RECURSIVE NatOf(_)
NatOf(ds) ==
    IF ds = <<>> THEN 0
    ELSE 10 * NatOf(SubSeq(ds, 1, Len(ds) - 1)) + DigitVal(ds[Len(ds)])

ParseInt(s) ==
    IF Head(Strip(s)) = "-" THEN 0 - NatOf(NumBody(s)) ELSE NatOf(NumBody(s))

RECURSIVE NatText(_)
NatText(n) ==
    IF n < 10 THEN <<Digits[n + 1]>>
    ELSE NatText(n \div 10) \o <<Digits[(n % 10) + 1]>>

IntText(n) == IF n < 0 THEN <<"-">> \o NatText(0 - n) ELSE NatText(n)

\* ----------------------------------------------------------------- values
Null == [k |-> "null"]

Num(n) == [k |-> "num", n |-> n]

Str(s) == [k |-> "str", s |-> s]

IsNull(v) == v.k = "null"

\* the comparison  value >= 0  of a numeric column: False for NaN
GeZero(v) == v.k = "num" /\ v.n >= 0

\* ------------------------------------------------------------------ names
PRICE == <<"p", "r", "i", "c", "e">>

QTY == <<"q", "t", "y">>

DATE_SOLD == <<"d", "a", "t", "e", "_", "s", "o", "l", "d">>

PRODNAME == <<"p", "r", "o", "d", "n", "a", "m", "e">>

CATEGORY == <<"c", "a", "t", "e", "g", "o", "r", "y">>

CsvSuffix == <<".", "c", "s", "v">>

raw_path == <<"r", "a", "w", ".", "c", "s", "v">>

txt_path == <<"r", "a", "w", ".", "t", "x", "t">>

cleaned_path == <<"c", "l", "e", "a", "n", ".", "c", "s", "v">>

Paths == {raw_path, txt_path, cleaned_path}

\* ----------------------------------------------------------------- tables
NoFile == [k |-> "absent"]

NoTable == [k |-> "none"]

Table(cols, rows) == [k |-> "table", cols |-> cols, rows |-> rows]

HasCol(t, name) == \E j \in 1..Len(t.cols) : t.cols[j] = name

ColIndex(t, name) == CHOOSE j \in 1..Len(t.cols) : t.cols[j] = name

Cell(t, r, name) == r.cells[ColIndex(t, name)]

\* df[name]: the values of one column, row by row
Column(t, name) == [i \in 1..Len(t.rows) |-> Cell(t, t.rows[i], name)]

\* boolean-mask selection df[mask]: the rows kept, index and order preserved
SelectRows(t, mask) ==
    LET kept == SelectSeq([i \in 1..Len(t.rows) |-> i], LAMBDA i : mask[i])
    IN  Table(t.cols, [n \in 1..Len(kept) |-> t.rows[kept[n]]])

\* assignment df[name] = series
SetColumn(t, name, series) ==
    LET j == ColIndex(t, name)
    IN  Table(t.cols,
              [i \in 1..Len(t.rows) |->
                  [t.rows[i] EXCEPT !.cells[j] = series[i]]])

\* ------------------------------------------------------------- load_data
\* the default na_values of read_csv that the model's alphabet can spell
NAValues == {<<>>, <<"n", "a", "n">>, <<"N", "a", "N">>, <<"N", "A">>}

\* read_csv infers a numeric column when every cell is NA or parses as a number
ColNumeric(file, j) ==
    \A i \in 1..Len(file.lines) :
        file.lines[i][j] \in NAValues \/ IsNumText(file.lines[i][j])

ParseCell(file, i, j) ==
    LET c == file.lines[i][j]
    IN  IF c \in NAValues THEN Null
        ELSE IF ColNumeric(file, j) THEN Num(ParseInt(c))
        ELSE Str(c)

\* pd.read_csv(filepath): first line is the header, RangeIndex from 0
ReadCsv(file) ==
    Table(file.header,
          [i \in 1..Len(file.lines) |->
              [idx |-> i - 1,
               cells |-> [j \in 1..Len(file.header) |-> ParseCell(file, i, j)]]])

Exists(disk, p) == disk[p] # NoFile

Raise(e) == [raised |-> TRUE, err |-> e, df |-> NoTable]

Return(t) == [raised |-> FALSE, err |-> "", df |-> t]

\* load_data with the existence check placed before the extension check
LoadBody_ExistsFirst(disk, p) ==
    IF ~Exists(disk, p) THEN Raise("FileNotFoundError")
    ELSE IF ~EndsWith(p, CsvSuffix) THEN Raise("ValueError")
    ELSE Return(ReadCsv(disk[p]))

\* the body of the try block of load_data
LoadBody(disk, p) ==
    IF ~EndsWith(p, CsvSuffix) THEN Raise("ValueError")
    ELSE IF ~Exists(disk, p) THEN Raise("FileNotFoundError")
    ELSE Return(ReadCsv(disk[p]))

\* the handler without its raise: the error is logged and None is returned
ExceptHandler_Swallow(res) == [raised |-> FALSE, err |-> "", df |-> res.df]

\* except Exception as e: logger.error(...); raise
ExceptHandler(res) == res

load_data(disk, p) == ExceptHandler(LoadBody(disk, p))

\* ---------------------------------------------------- clean_column_names
\* the three string calls in another order: spaces replaced before the strip
NormalizeName_ReplaceFirst(s) == Strip(Lower(Replace(s, " ", "_")))

\* df.columns.str.strip().str.lower().str.replace(' ', '_')
NormalizeName(s) == Replace(Lower(Strip(s)), " ", "_")

RenameColumns(t) ==
    Table([j \in 1..Len(t.cols) |-> NormalizeName(t.cols[j])], t.rows)

\* astype(str): NaN becomes the string "nan"
AsStr(v) ==
    CASE v.k = "null" -> <<"n", "a", "n">>
      [] v.k = "num" -> IntText(v.n)
      [] v.k = "str" -> v.s

\* .astype(str).str.strip().str.lower()
CleanText(v) == Str(Lower(Strip(AsStr(v))))

\* the text cleaning with a dropna on the column before it
CleanTextColumn_DropNull(t, name) ==
    IF HasCol(t, name)
    THEN LET kept == SelectRows(t, [i \in 1..Len(t.rows) |-> ~IsNull(Column(t, name)[i])])
         IN  SetColumn(kept, name,
                       [i \in 1..Len(kept.rows) |-> CleanText(Column(kept, name)[i])])
    ELSE t

CleanTextColumn(t, name) ==
    IF HasCol(t, name)
    THEN SetColumn(t, name,
                   [i \in 1..Len(t.rows) |-> CleanText(Column(t, name)[i])])
    ELSE t

clean_column_names(t) ==
    CleanTextColumn(CleanTextColumn(RenameColumns(t), PRODNAME), CATEGORY)

\* ------------------------------------------------- handle_missing_values
\* the replace left out: a blank string stays a string
BlankToNaN_Skipped(v) == v

\* df.replace(r'^\s*$', np.nan, regex=True) on one cell
BlankToNaN(v) == IF v.k = "str" /\ IsBlank(v.s) THEN Null ELSE v

ReplaceBlanks(t) ==
    Table(t.cols,
          [i \in 1..Len(t.rows) |->
              [t.rows[i] EXCEPT
                  !.cells = [j \in 1..Len(t.cols) |-> BlankToNaN(t.rows[i].cells[j])]]])

\* pd.to_numeric(..., errors='coerce') on one cell
ToNumeric(v) ==
    CASE v.k = "null" -> Null
      [] v.k = "num" -> v
      [] v.k = "str" -> IF IsNumText(v.s) THEN Num(ParseInt(v.s)) ELSE Null

CoerceColumn(t, name) ==
    IF HasCol(t, name)
    THEN SetColumn(t, name,
                   [i \in 1..Len(t.rows) |-> ToNumeric(Column(t, name)[i])])
    ELSE t

critical_cols == <<PRICE, QTY, DATE_SOLD>>

existing_critical_cols(t) == SelectSeq(critical_cols, LAMBDA c : HasCol(t, c))

\* df.dropna(subset=subset, how='all'): a row is kept when some column of
\* subset is not null in it; with an empty subset no row is kept
DropNaAll(t, subset) ==
    SelectRows(t, [i \in 1..Len(t.rows) |->
                      \E n \in 1..Len(subset) : ~IsNull(Column(t, subset[n])[i])])

handle_missing_values(t) ==
    LET coerced == CoerceColumn(CoerceColumn(ReplaceBlanks(t), PRICE), QTY)
    IN  DropNaAll(coerced, existing_critical_cols(coerced))

\* --------------------------------------------------- remove_invalid_rows
\* df[df['qty'] >= 0]
FilterQty(t) ==
    SelectRows(t, [i \in 1..Len(t.rows) |-> GeZero(Column(t, QTY)[i])])

\* the selection computed and not assigned back to df
FilterPrice_NotAssigned(t) == t

\* df[df['price'] >= 0]
FilterPrice(t) ==
    SelectRows(t, [i \in 1..Len(t.rows) |-> GeZero(Column(t, PRICE)[i])])

\* df.dropna(subset=['date_sold'])
FilterDate(t) ==
    SelectRows(t, [i \in 1..Len(t.rows) |-> ~IsNull(Column(t, DATE_SOLD)[i])])

Filter(name, t) ==
    CASE name = QTY -> FilterQty(t)
      [] name = PRICE -> FilterPrice(t)
      [] name = DATE_SOLD -> FilterDate(t)

\* the count of the rows left logged in place of the count removed
Removed_Remaining(before, after) == Len(after.rows)

\* removed = initial_count - len(df)
Removed(before, after) == Len(before.rows) - Len(after.rows)

\* one  if name in df.columns:  block; st is the table and the counts logged
FilterStep(st, name) ==
    IF HasCol(st.df, name)
    THEN [df |-> Filter(name, st.df),
          log |-> Append(st.log,
                         [col |-> name,
                          removed |-> Removed(st.df, Filter(name, st.df))])]
    ELSE st

\* the order of the three blocks in the source
FilterOrder == <<QTY, PRICE, DATE_SOLD>>

RunFilters(order, t) ==
    FilterStep(FilterStep(FilterStep([df |-> t, log |-> <<>>], order[1]),
                          order[2]),
               order[3])

remove_invalid_rows(t) == RunFilters(FilterOrder, t)

\* ----------------------------------------------------------------- to_csv
\* na_rep is '', a number is written as its digits, a string as it is
CellText(v) ==
    CASE v.k = "null" -> <<>>
      [] v.k = "num" -> IntText(v.n)
      [] v.k = "str" -> v.s

\* df.to_csv(path, index=False)
ToCsv(t) ==
    [k |-> "file",
     header |-> t.cols,
     lines |-> [i \in 1..Len(t.rows) |->
                   [j \in 1..Len(t.cols) |-> CellText(t.rows[i].cells[j])]]]

\* ----------------------------------------------------------------- inputs
SlotOrder == <<"price", "qty", "date", "text", "other">>

Spellings(slot) ==
    CASE slot = "price" -> {<<" ", "P", "r", "i", "c", "e", " ">>}
      [] slot = "qty" -> {<<"Q", "T", "Y">>}
      [] slot = "date" -> {<<"D", "a", "t", "e", " ", "S", "o", "l", "d">>}
      [] slot = "text" -> {<<"P", "r", "o", "d", "N", "a", "m", "e", " ">>,
                           <<"C", "a", "t", "e", "g", "o", "r", "y">>}
      [] slot = "other" -> {<<" ", "P", "r", "o", "d", "u", "c", "t", " ",
                              "N", "a", "m", "e", " ">>,
                            <<"\t", "N", "o", "\t", "t", "e">>}

Samples(slot) ==
    CASE slot = "price" -> {<<"-", "1">>, <<" ", "5", " ">>, <<"a", "b", "c">>}
      [] slot = "qty" -> {<<"-", "1">>, <<"2">>, <<>>}
      [] slot = "date" -> {<<>>, <<" ", " ">>,
                           <<"2", "0", "2", "4", "-", "0", "1", "-", "0", "1">>}
      [] slot = "text" -> {<<>>, <<" ", " ">>, <<" ", "A", "b", " ">>}
      [] slot = "other" -> {<<" ">>, <<"x">>}

RECURSIVE Product(_)
Product(sets) ==
    IF sets = <<>> THEN {<<>>}
    ELSE {<<x>> \o rest : x \in Head(sets), rest \in Product(Tail(sets))}

SlotsOf(S) == SelectSeq(SlotOrder, LAMBDA s : s \in S)

FilesOf(S) ==
    LET slots == SlotsOf(S)
        headers == Product([j \in 1..Len(slots) |-> Spellings(slots[j])])
        rows == Product([j \in 1..Len(slots) |-> Samples(slots[j])])
    IN  UNION {{[k |-> "file", header |-> h, lines |-> ls] :
                    h \in headers, ls \in [1..n -> rows]} :
               n \in {m \in 0..MaxRows : m * Len(slots) <= MaxCells}}

InputFiles ==
    UNION {FilesOf(S) : S \in (SUBSET {SlotOrder[j] : j \in 1..Len(SlotOrder)}) \ {{}}}

\* --------------------------------------------------------------- pipeline
Init ==
    /\ pc = "load"
    /\ filepath \in {raw_path, txt_path}
    /\ \E f \in InputFiles \cup {NoFile} :
          fs = [q \in Paths |-> IF q = filepath THEN f ELSE NoFile]
    /\ df = NoTable
    /\ prevDf = NoTable
    /\ err = ""
    /\ log = <<>>
    /\ run = 1
    /\ first = NoFile

\* df_raw = load_data(raw_path)
Load ==
    /\ pc = "load"
    /\ LET res == load_data(fs, filepath)
       IN  /\ pc' = IF res.raised THEN "raised" ELSE "clean"
           /\ err' = res.err
           /\ df' = res.df
    /\ prevDf' = NoTable
    /\ UNCHANGED <<filepath, fs, log, run, first>>

\* df_clean = clean_column_names(df_raw)
CleanColumnNames ==
    /\ pc = "clean"
    /\ pc' = "missing"
    /\ prevDf' = df
    /\ df' = clean_column_names(df)
    /\ UNCHANGED <<filepath, fs, err, log, run, first>>

\* df_clean = handle_missing_values(df_clean)
HandleMissingValues ==
    /\ pc = "missing"
    /\ pc' = "invalid"
    /\ prevDf' = df
    /\ df' = handle_missing_values(df)
    /\ UNCHANGED <<filepath, fs, err, log, run, first>>

\* df_clean = remove_invalid_rows(df_clean)
RemoveInvalidRows ==
    /\ pc = "invalid"
    /\ pc' = "write"
    /\ prevDf' = df
    /\ df' = remove_invalid_rows(df).df
    /\ log' = remove_invalid_rows(df).log
    /\ UNCHANGED <<filepath, fs, err, run, first>>

\* Path(cleaned_path).parent.mkdir(...); df_clean.to_csv(cleaned_path, index=False)
Write ==
    /\ pc = "write"
    /\ pc' = "done"
    /\ fs' = [fs EXCEPT ![cleaned_path] = ToCsv(df)]
    /\ UNCHANGED <<filepath, df, prevDf, err, log, run, first>>

\* the script run again with its own output as the raw file
Rerun ==
    /\ pc = "done"
    /\ run = 1
    /\ run' = 2
    /\ pc' = "load"
    /\ filepath' = cleaned_path
    /\ first' = fs[cleaned_path]
    /\ df' = NoTable
    /\ prevDf' = NoTable
    /\ log' = <<>>
    /\ UNCHANGED <<fs, err>>

Next ==
    \/ Load
    \/ CleanColumnNames
    \/ HandleMissingValues
    \/ RemoveInvalidRows
    \/ Write
    \/ Rerun

Spec == Init /\ [][Next]_vars

\* ----------------------------------------------------------------- claims
\* the table in df is the pipeline's output
Output == pc \in {"write", "done"}

\* the file load_data read in this run
Loaded == IF run = 1 THEN fs[filepath] ELSE first

IdxSeq(t) == [i \in 1..Len(t.rows) |-> t.rows[i].idx]

IdxSet(t) == {t.rows[i].idx : i \in 1..Len(t.rows)}

\* C1: in the pipeline's output every qty and every price that is present is
\* null or a number >= 0; no output row has a negative qty or price.
C1_NoNegative ==
    Output =>
        \A name \in {QTY, PRICE} :
            HasCol(df, name) =>
                \A i \in 1..Len(df.rows) :
                    LET v == Column(df, name)[i]
                    IN  IsNull(v) \/ (v.k = "num" /\ v.n >= 0)

\* a run whose validator received a negative price and a negative qty and
\* whose output still has a row
C1_Witness ==
    /\ pc = "write"
    /\ HasCol(df, QTY) /\ HasCol(df, PRICE)
    /\ Len(df.rows) >= 1
    /\ \E i \in 1..Len(prevDf.rows) :
          LET q == Column(prevDf, QTY)[i]
              p == Column(prevDf, PRICE)[i]
          IN  (q.k = "num" /\ q.n < 0) \/ (p.k = "num" /\ p.n < 0)

\* C2: when the table has a date_sold column, every output row has a non-null
\* date_sold; a row whose raw date_sold was empty or whitespace-only is not
\* in the output.
C2_DateSoldPresent ==
    (Output /\ HasCol(df, DATE_SOLD)) =>
        \A i \in 1..Len(df.rows) :
            LET v == Column(df, DATE_SOLD)[i]
                raw == Loaded.lines[df.rows[i].idx + 1][ColIndex(df, DATE_SOLD)]
            IN  /\ ~IsNull(v)
                /\ ~(v.k = "str" /\ IsBlank(v.s))
                /\ ~IsBlank(raw)

\* a row with a whitespace-only date_sold got through handle_missing_values
\* (its date_sold made null) and was removed by remove_invalid_rows, while
\* another row stayed
C2_Witness ==
    /\ pc = "write" /\ run = 1
    /\ HasCol(df, DATE_SOLD)
    /\ Len(df.rows) >= 1
    /\ \E i \in 1..Len(prevDf.rows) :
          /\ Loaded.lines[prevDf.rows[i].idx + 1][ColIndex(df, DATE_SOLD)] = <<" ", " ">>
          /\ IsNull(Column(prevDf, DATE_SOLD)[i])
          /\ prevDf.rows[i].idx \notin IdxSet(df)

\* C3: the second run over the first run's output writes the same file as
\* the first run.
C3_Idempotent ==
    (pc = "done" /\ run = 2) => fs[cleaned_path] = first

\* C4 as stated: a path that does not exist makes load_data raise
\* FileNotFoundError, whatever its extension.
C4_NotFoundAnyExtension ==
    (pc # "load" /\ ~Exists(fs, filepath)) =>
        (pc = "raised" /\ err = "FileNotFoundError")

\* C4 amended: a path ending in .csv that does not exist makes load_data
\* raise FileNotFoundError; no table is returned, no stage and no write runs.
C4_NotFoundCsv ==
    (pc # "load" /\ EndsWith(filepath, CsvSuffix) /\ ~Exists(fs, filepath)) =>
        /\ pc = "raised"
        /\ err = "FileNotFoundError"
        /\ df = NoTable
        /\ prevDf = NoTable
        /\ fs[cleaned_path] = NoFile

C4_Witness ==
    /\ pc = "raised"
    /\ err = "FileNotFoundError"
    /\ filepath = raw_path
    /\ fs[raw_path] = NoFile

\* C5: a path that does not end in .csv makes load_data raise ValueError,
\* whether or not the file exists; nothing is parsed and the error reaches
\* the caller.
C5_InvalidFormat ==
    (pc # "load" /\ ~EndsWith(filepath, CsvSuffix)) =>
        /\ pc = "raised"
        /\ err = "ValueError"
        /\ df = NoTable

\* the file exists and holds rows, and load_data still raised ValueError
C5_Witness ==
    /\ pc = "raised"
    /\ err = "ValueError"
    /\ Exists(fs, filepath)
    /\ Len(fs[filepath].lines) >= 1

\* the name with its leading and trailing whitespace cut, by position
FirstInk(s) == CHOOSE i \in 1..Len(s) : s[i] \notin WS /\ \A n \in 1..(i - 1) : s[n] \in WS

LastInk(s) == CHOOSE i \in 1..Len(s) : s[i] \notin WS /\ \A n \in (i + 1)..Len(s) : s[n] \in WS

Trimmed(s) == IF IsBlank(s) THEN <<>> ELSE SubSeq(s, FirstInk(s), LastInk(s))

ProductNameRaw == <<" ", "P", "r", "o", "d", "u", "c", "t", " ", "N", "a", "m", "e", " ">>

product_name == <<"p", "r", "o", "d", "u", "c", "t", "_", "n", "a", "m", "e">>

\* C6: after clean_column_names every column name is the original name
\* trimmed, lowercased, with each space replaced by an underscore: it has no
\* upper-case letter, no space, no whitespace at either end; " Product Name "
\* becomes "product_name"; the number and order of columns is unchanged.
C6_ColumnNames ==
    pc = "missing" =>
        /\ Len(df.cols) = Len(prevDf.cols)
        /\ \A j \in 1..Len(df.cols) :
              LET new == df.cols[j]
                  old == prevDf.cols[j]
              IN  /\ Len(new) = Len(Trimmed(old))
                  /\ \A i \in 1..Len(new) :
                        /\ new[i] = IF Trimmed(old)[i] = " " THEN "_"
                                    ELSE LowerChar(Trimmed(old)[i])
                        /\ ~IsUpper(new[i])
                        /\ new[i] # " "
                  /\ new # <<>> => (new[1] \notin WS /\ new[Len(new)] \notin WS)
                  /\ old = ProductNameRaw => new = product_name

C6_Witness ==
    /\ pc = "missing" /\ run = 1
    /\ \E j \in 1..Len(df.cols) :
          prevDf.cols[j] = ProductNameRaw /\ df.cols[j] = product_name
    /\ \E j \in 1..Len(df.cols) : df.cols[j] = DATE_SOLD

\* the rows C7 and the spec say remove_invalid_rows removes
Invalid(t, i) ==
    \/ HasCol(t, QTY) /\ Column(t, QTY)[i].k = "num" /\ Column(t, QTY)[i].n < 0
    \/ HasCol(t, PRICE) /\ Column(t, PRICE)[i].k = "num" /\ Column(t, PRICE)[i].n < 0
    \/ HasCol(t, DATE_SOLD) /\ IsNull(Column(t, DATE_SOLD)[i])

\* C7: remove_invalid_rows removes exactly the rows with qty < 0, price < 0
\* or a null date_sold (each when the column is present) and keeps every
\* other row, a row with a null qty or price and a date_sold included.
C7_RemovesExactlyInvalid ==
    pc = "write" =>
        \A i \in 1..Len(prevDf.rows) :
            (prevDf.rows[i].idx \in IdxSet(df)) <=> ~Invalid(prevDf, i)

\* a value that is null once blanks are replaced and the column is coerced
NullAfterCoercion(name, v) ==
    \/ IsNull(v)
    \/ v.k = "str" /\ IsBlank(v.s)
    \/ name \in {PRICE, QTY} /\ v.k = "str" /\ ~IsNumText(v.s)

PresentCritical(t) == {c \in {PRICE, QTY, DATE_SOLD} : HasCol(t, c)}

\* C8: handle_missing_values drops a row if and only if every critical
\* column present is null in it after coercion; when no critical column is
\* present no row is dropped.
C8_DropsOnlyAllNull ==
    pc = "invalid" =>
        \A i \in 1..Len(prevDf.rows) :
            (prevDf.rows[i].idx \in IdxSet(df)) <=>
                \/ PresentCritical(prevDf) = {}
                \/ \E c \in PresentCritical(prevDf) :
                      ~NullAfterCoercion(c, Column(prevDf, c)[i])

\* handle_missing_values on the tables that have a critical column: there
\* a row is dropped exactly when every critical column present is null in it
C8_WithCriticalColumn ==
    (pc = "invalid" /\ PresentCritical(prevDf) # {}) =>
        \A i \in 1..Len(prevDf.rows) :
            (prevDf.rows[i].idx \in IdxSet(df)) <=>
                \E c \in PresentCritical(prevDf) :
                    ~NullAfterCoercion(c, Column(prevDf, c)[i])

Orders == {o \in [1..3 -> {QTY, PRICE, DATE_SOLD}] : \A a, b \in 1..3 : a # b => o[a] # o[b]}

\* row i of t fails the filter of column name
Fails(t, name, i) ==
    HasCol(t, name) /\ t.rows[i].idx \notin IdxSet(Filter(name, t))

RECURSIVE SumRemoved(_)
SumRemoved(entries) ==
    IF entries = <<>> THEN 0 ELSE Head(entries).removed + SumRemoved(Tail(entries))

\* the filters of order o whose column is present, in order
PresentIn(t, o) == SelectSeq(o, LAMBDA c : HasCol(t, c))

\* C9: the three filters commute: in each of the six orders they leave the
\* rows the source's order leaves; each logged count is the number of rows
\* that fail that filter and no earlier one, and the counts sum to the number
\* of rows removed.
C9_FiltersCommute ==
    pc = "write" =>
        /\ remove_invalid_rows(prevDf).df = df
        /\ remove_invalid_rows(prevDf).log = log
        /\ \A o \in Orders :
              LET res == RunFilters(o, prevDf)
                  present == PresentIn(prevDf, o)
              IN  /\ res.df = df
                  /\ SumRemoved(res.log) = Len(prevDf.rows) - Len(df.rows)
                  /\ Len(res.log) = Len(present)
                  /\ \A n \in 1..Len(res.log) :
                        /\ res.log[n].col = present[n]
                        /\ res.log[n].removed =
                              Cardinality({i \in 1..Len(prevDf.rows) :
                                  /\ Fails(prevDf, present[n], i)
                                  /\ \A m \in 1..(n - 1) : ~Fails(prevDf, present[m], i)})

\* a row fails two filters, so the later filter's count is smaller than the
\* number of rows that fail it
C9_Witness ==
    /\ pc = "write"
    /\ Len(log) = 3
    /\ Len(df.rows) >= 1
    /\ \E i \in 1..Len(prevDf.rows) :
          Fails(prevDf, QTY, i) /\ Fails(prevDf, PRICE, i)
    /\ log[2].removed <
          Cardinality({i \in 1..Len(prevDf.rows) : Fails(prevDf, PRICE, i)})

RECURSIVE IsSubSeq(_, _)
IsSubSeq(a, b) ==
    IF a = <<>> THEN TRUE
    ELSE IF b = <<>> THEN FALSE
    ELSE IF Head(a) = Head(b) THEN IsSubSeq(Tail(a), Tail(b))
    ELSE IsSubSeq(a, Tail(b))

\* C10: each stage only removes rows: clean_column_names keeps every row,
\* the rows after handle_missing_values and after remove_invalid_rows are an
\* order-preserving subsequence of the rows before, and the output has at
\* most as many rows as were loaded.
C10_OnlyRemovesRows ==
    /\ pc = "clean" =>
          /\ Len(df.rows) = Len(Loaded.lines)
          /\ IdxSeq(df) = [i \in 1..Len(df.rows) |-> i - 1]
    /\ pc = "missing" => IdxSeq(df) = IdxSeq(prevDf)
    /\ pc \in {"invalid", "write"} => IsSubSeq(IdxSeq(df), IdxSeq(prevDf))
    /\ pc \in {"missing", "invalid", "write", "done"} =>
          /\ Len(df.rows) <= Len(Loaded.lines)
          /\ IsSubSeq(IdxSeq(df), [i \in 1..Len(Loaded.lines) |-> i - 1])

\* the first of two rows was removed by the validator and the second stayed
C10_Witness ==
    /\ pc = "write"
    /\ Len(prevDf.rows) = 2
    /\ IdxSeq(df) = <<1>>

====
